---- MODULE Spec2Model ----
(***************************************************************************)
(* Scripts/validate_versioning.py: one run of main(), the validator        *)
(* validate_payload and the label reader parse_labels_from_event.          *)
(*                                                                         *)
(* A Python/JSON value is a record [t |-> type, v |-> value]:              *)
(*   null  v = 0          bool  v in BOOLEAN      int   v in Int           *)
(*   float v = the value times ten (15 is 1.5)                             *)
(*   str   v = sequence of symbols    list  v = sequence of values         *)
(*   dict  v = function from keys to values                                *)
(* A symbol is one character, or one of the words the program looks for    *)
(* ("marketing_version", "build_number", "release", ...) taken as a unit.  *)
(***************************************************************************)
EXTENDS Integers, Sequences, FiniteSets, TLC

VARIABLES
    worktree_file,      \* Docs/version.json in the working tree: [exists, doc]
    baseline_file,      \* what `git show` gives for it at the baseline: [rc, out]
    pc,                 \* the statement of main() that runs next, or "exited"
    current,            \* main's local `current`
    base_ref,           \* main's local `base_ref` (<<>> is None)
    changed,            \* main's local `changed`
    labels,             \* main's local `labels`
    release_requested,  \* main's local `release_requested`
    base_contents,      \* main's local `base_contents`
    base,               \* main's local `base`
    stdout,             \* the lines printed, each a sequence of symbols
    status,             \* the exit status of the process (-1 while it runs)
    raised              \* the exception that ended the process ("" if none)

vars == <<worktree_file, baseline_file, pc, current, base_ref, changed, labels, release_requested,
          base_contents, base, stdout, status, raised>>

\* ------------------------------------------------------------------ bounds
MaxLen == 6
MaxBuild == 2
MaxMajor == 1
MaxPatch == 1

\* --------------------------------------------------------------- constants
VERSION_PATH == <<"Docs/version.json">>
RELEASE_LABELS == {<<"release">>}

\* -------------------------------------------------------------- JSON values
JNull == [t |-> "null", v |-> 0]
JBool(b) == [t |-> "bool", v |-> b]
JInt(i) == [t |-> "int", v |-> i]
JFloat(tenths) == [t |-> "float", v |-> tenths]
JStr(s) == [t |-> "str", v |-> s]
JList(s) == [t |-> "list", v |-> s]
JDict(f) == [t |-> "dict", v |-> f]
EmptyDict == JDict(<<>>)

\* bool(x)
Truthy(x) ==
    CASE x.t = "null" -> FALSE
      [] x.t = "bool" -> x.v
      [] x.t = "int" -> x.v # 0
      [] x.t = "float" -> x.v # 0
      [] x.t = "str" -> Len(x.v) > 0
      [] x.t = "list" -> Len(x.v) > 0
      [] x.t = "dict" -> DOMAIN x.v # {}

\* isinstance(x, int): bool is a subclass of int
IsInstanceInt(x) == x.t \in {"int", "bool"}

\* the integer a bool or int compares as
IntValue(x) == IF x.t = "bool" THEN (IF x.v THEN 1 ELSE 0) ELSE x.v

\* hash(x) is defined
Hashable(x) == x.t \notin {"list", "dict"}

\* `key in x` is defined (x is a container)
SupportsIn(x) == x.t \in {"dict", "list", "str"}

\* `key in x` for a str key of one symbol
In(key, x) ==
    CASE x.t = "dict" -> key \in DOMAIN x.v
      [] x.t = "list" -> \E i \in 1..Len(x.v) : x.v[i].t = "str" /\ x.v[i].v = <<key>>
      [] x.t = "str" -> \E i \in 1..Len(x.v) : x.v[i] = key

\* d.get(key) on a dict
Get(d, key) == IF key \in DOMAIN d.v THEN d.v[key] ELSE JNull

\* --------------------------------------------------------------- SEMVER_RE
AsciiDigit == {"0", "1", "2", "3", "4", "5", "6", "7", "8", "9"}

\* positions after a match of (0|[1-9]\d*) that starts at i
NumEnds(s, i) ==
    IF i > Len(s) THEN {}
    ELSE IF s[i] = "0" THEN {i + 1}
    ELSE IF s[i] \in AsciiDigit
         THEN {j \in (i + 1)..(Len(s) + 1) : \A k \in (i + 1)..(j - 1) : s[k] \in AsciiDigit}
         ELSE {}

NumEndsFrom(s, P) == UNION {NumEnds(s, i) : i \in P}

\* positions after a match of \. that starts at a position of P
DotEndsFrom(s, P) == {i + 1 : i \in {p \in P : p <= Len(s) /\ s[p] = "."}}

\* $ matches at the end of the string and just before a newline that ends it
DollarAt(s, i) == i = Len(s) + 1 \/ (i = Len(s) /\ s[i] = "\n")

\* SEMVER_RE.match(s) is not None
SEMVER_RE_match(s) ==
    \E e \in NumEndsFrom(s, DotEndsFrom(s, NumEndsFrom(s, DotEndsFrom(s, NumEnds(s, 1))))) :
        DollarAt(s, e)

\* ------------------------------------------------------- results of a call
Ok == [kind |-> "ok", message |-> <<>>]
\* fail(message) was called
Fail(message) == [kind |-> "fail", message |-> message]
\* an exception no handler catches
Raise(exc) == [kind |-> "raise", message |-> <<exc>>]

\* --------------------------------------------------------- validate_payload
validate_payload(payload, source) ==
    IF ~SupportsIn(payload) THEN Raise("TypeError")
    ELSE IF ~In("marketing_version", payload)
         THEN Fail(source \o <<" missing marketing_version">>)
    ELSE IF ~In("build_number", payload)
         THEN Fail(source \o <<" missing build_number">>)
    ELSE IF payload.t # "dict" THEN Raise("TypeError")
    ELSE LET marketing_version == payload.v["marketing_version"]
             build_number == payload.v["build_number"]
         IN  IF marketing_version.t # "str"
             THEN Fail(source \o <<" marketing_version must be a string">>)
             ELSE IF ~SEMVER_RE_match(marketing_version.v)
                  THEN Fail(source \o <<" marketing_version must be SemVer (x.y.z)">>)
             ELSE IF ~IsInstanceInt(build_number)
                  THEN Fail(source \o <<" build_number must be an integer">>)
             ELSE IF IntValue(build_number) < 0
                  THEN Fail(source \o <<" build_number must be >= 0">>)
             ELSE Ok

\* ------------------------------------------------------------- semver_tuple
DigitChars == <<"0", "1", "2", "3", "4", "5", "6", "7", "8", "9">>
DigitValue(c) == (CHOOSE d \in 1..10 : DigitChars[d] = c) - 1
Whitespace == {" ", "\n", "\t"}

RECURSIVE Split(_)
\* s.split(".")
Split(s) ==
    IF \A i \in 1..Len(s) : s[i] # "." THEN <<s>>
    ELSE LET i == CHOOSE k \in 1..Len(s) : s[k] = "." /\ \A j \in 1..(k - 1) : s[j] # "."
         IN  <<SubSeq(s, 1, i - 1)>> \o Split(SubSeq(s, i + 1, Len(s)))

RECURSIVE Strip(_)
\* s.strip(), which int() applies to its argument
Strip(s) ==
    IF s = <<>> THEN s
    ELSE IF s[1] \in Whitespace THEN Strip(Tail(s))
    ELSE IF s[Len(s)] \in Whitespace THEN Strip(SubSeq(s, 1, Len(s) - 1))
    ELSE s

RECURSIVE DecimalValue(_)
DecimalValue(s) ==
    IF s = <<>> THEN 0
    ELSE 10 * DecimalValue(SubSeq(s, 1, Len(s) - 1)) + DigitValue(s[Len(s)])

\* int(s) returns (it raises ValueError otherwise)
IntParses(s) == Strip(s) # <<>> /\ \A i \in 1..Len(Strip(s)) : Strip(s)[i] \in AsciiDigit
\* int(s)
int(s) == DecimalValue(Strip(s))

\* semver_tuple(version) returns
semver_tuple_ok(version) ==
    /\ Len(Split(version)) = 3
    /\ \A i \in 1..3 : IntParses(Split(version)[i])
semver_tuple(version) ==
    <<int(Split(version)[1]), int(Split(version)[2]), int(Split(version)[3])>>

\* a < b on tuples of three integers
TupleLess(a, b) ==
    \/ a[1] < b[1]
    \/ a[1] = b[1] /\ a[2] < b[2]
    \/ a[1] = b[1] /\ a[2] = b[2] /\ a[3] < b[3]
\* a <= b on tuples
TupleLessEq(a, b) == TupleLess(a, b) \/ a = b

RECURSIVE str(_)
\* str(n) for an integer n >= 0
str(n) == IF n < 10 THEN <<DigitChars[n + 1]>> ELSE str(n \div 10) \o <<DigitChars[(n % 10) + 1]>>
\* how an f-string shows a build number that passed validate_payload
Format(x) == IF x.t = "bool" THEN (IF x.v THEN <<"True">> ELSE <<"False">>) ELSE str(x.v)

\* -------------------------------------------------- parse_labels_from_event
LabelsOk(S) == [kind |-> "ok", message |-> <<>>, labels |-> S]
LabelsRaise(exc) == [kind |-> "raise", message |-> <<exc>>, labels |-> {}]

\* `for label in x` is defined
Iterable(x) == x.t \in {"list", "str", "dict"}
\* the values `for label in x` yields
Items(x) ==
    CASE x.t = "list" -> {x.v[i] : i \in 1..Len(x.v)}
      [] x.t = "str" -> {JStr(<<x.v[i]>>) : i \in 1..Len(x.v)}
      [] x.t = "dict" -> {JStr(<<k>>) : k \in DOMAIN x.v}

\* name = label.get("name") if isinstance(label, dict) else None
LabelName(label) == IF label.t = "dict" THEN Get(label, "name") ELSE JNull

\* an event file is [path |-> "unset" | "missing" | "present", doc |-> its content]
parse_labels_from_event(event_file) ==
    IF event_file.path # "present" THEN LabelsOk({})
    ELSE IF event_file.doc.t = "notjson" THEN LabelsOk({})
    ELSE LET event == event_file.doc IN
      IF event.t # "dict" THEN LabelsRaise("AttributeError")
      ELSE LET pr == Get(event, "pull_request") IN
        IF ~(Truthy(pr) /\ pr.t = "dict") THEN LabelsOk({})
        ELSE LET got == IF "labels" \in DOMAIN pr.v THEN pr.v["labels"] ELSE JList(<<>>)
                 seq == IF Truthy(got) THEN got ELSE JList(<<>>)
             IN  IF ~Iterable(seq) THEN LabelsRaise("TypeError")
                 ELSE LET names == {LabelName(l) : l \in Items(seq)}
                          added == {n \in names : Truthy(n)}
                      IN  IF \E n \in added : ~Hashable(n) THEN LabelsRaise("TypeError")
                          ELSE LabelsOk(added)

\* bool(RELEASE_LABELS & labels)
ReleaseRequested(S) == \E l \in S : l.t = "str" /\ l.v \in RELEASE_LABELS

\* --------------------------------------------------------- resolve_base_ref
CANDIDATES == << <<"origin/", "main">>, <<"origin/", "master">>, <<"main">>, <<"master">> >>

\* env_base_ref is os.environ.get("GITHUB_BASE_REF"); existing is the set of
\* refs `git rev-parse --verify` accepts; <<>> is None
resolve_base_ref(env_base_ref, existing) ==
    IF Truthy(env_base_ref) THEN <<"origin/">> \o env_base_ref.v
    ELSE IF \E i \in 1..Len(CANDIDATES) : CANDIDATES[i] \in existing
         THEN CANDIDATES[CHOOSE i \in 1..Len(CANDIDATES) :
                  CANDIDATES[i] \in existing /\ \A j \in 1..(i - 1) : CANDIDATES[j] \notin existing]
         ELSE <<>>

\* ------------------------------------------------ git_show and file_changed
\* what a git command gives: [rc |-> exit status, out |-> its output]
\* git_show: None on CalledProcessError, else the text
PyNone == [t |-> "None", v |-> 0]
Unset == [t |-> "unset", v |-> 0]
NotJSON == [t |-> "notjson", v |-> 0]
git_show(result) == IF result.rc # 0 THEN PyNone ELSE result.out

\* file_changed: False on CalledProcessError, else bool(output.strip())
file_changed(result) == IF result.rc # 0 THEN FALSE ELSE Strip(result.out) # <<>>

\* ----------------------------------------------------------------- inputs
MinorValues == {2, 10}
VersionString(major, minor, patch) ==
    str(major) \o <<".">> \o str(minor) \o <<".">> \o str(patch)
ValidVersions ==
    {VersionString(a, b, c) : a \in 0..MaxMajor, b \in MinorValues, c \in 0..MaxPatch}
Record(marketing_version, build_number) ==
    JDict([marketing_version |-> marketing_version, build_number |-> build_number])
V120 == <<"1", ".", "2", ".", "0">>

\* version records of the expected shape
GoodDocs == {Record(JStr(ver), JInt(b)) : ver \in ValidVersions, b \in 0..MaxBuild}

\* other JSON documents a version file can hold
OddDocs ==
    { JNull, JInt(5), JList(<<>>), EmptyDict,
      JList(<<JStr(<<"marketing_version">>), JStr(<<"build_number">>)>>),
      JStr(<<"marketing_version", " ", "build_number">>),
      JDict([marketing_version |-> JStr(V120)]),
      Record(JInt(1), JInt(1)),
      Record(JStr(<<"1", ".", "2">>), JInt(1)),
      Record(JStr(<<"0", "1", ".", "2", ".", "0">>), JInt(1)),
      Record(JStr(V120 \o <<"\n">>), JInt(1)),
      Record(JStr(V120), JBool(TRUE)),
      Record(JStr(V120), JFloat(15)),
      Record(JStr(V120), JStr(<<"1">>)),
      Record(JStr(V120), JInt(-1)) }

Docs == GoodDocs \cup OddDocs

\* the version file in the working tree: absent, or a text
CurrentFiles ==
    {[exists |-> FALSE, doc |-> NotJSON]} \cup {[exists |-> TRUE, doc |-> d] : d \in Docs \cup {NotJSON}}

\* what `git show <ref>:<path>` gives
GitShowResults ==
    {[rc |-> 128, out |-> NotJSON]} \cup {[rc |-> 0, out |-> d] : d \in Docs \cup {NotJSON}}

\* what `git diff --name-only <ref>...HEAD -- <path>` gives
GitDiffResults ==
    { [rc |-> 128, out |-> <<>>], [rc |-> 0, out |-> <<>>],
      [rc |-> 0, out |-> <<"Docs/version.json", "\n">>] }

\* values of GITHUB_BASE_REF: unset, empty, a branch name
BaseRefEnv == {JNull, JStr(<<>>), JStr(<<"main">>)}

Label(name) == JDict([name |-> name])
PullRequest(labels_value) == JDict([pull_request |-> JDict([labels |-> labels_value])])

\* JSON documents an event file can hold
EventDocs ==
    { NotJSON, JNull, JList(<<>>), EmptyDict,
      JDict([pull_request |-> JNull]),
      JDict([pull_request |-> JList(<<Label(JStr(<<"release">>))>>)]),
      JDict([pull_request |-> EmptyDict]),
      PullRequest(JNull),
      PullRequest(JList(<<>>)),
      PullRequest(JInt(5)),
      PullRequest(JStr(<<"release">>)),
      PullRequest(Label(JStr(<<"release">>))),
      PullRequest(JList(<<Label(JStr(<<"bug">>))>>)),
      PullRequest(JList(<<Label(JStr(<<"release">>))>>)),
      PullRequest(JList(<<Label(JStr(<<"bug">>)), Label(JStr(<<"release">>))>>)),
      PullRequest(JList(<<JStr(<<"release">>)>>)),
      PullRequest(JList(<<JInt(5), EmptyDict, Label(JNull), Label(JStr(<<"release">>))>>)),
      PullRequest(JList(<<Label(JInt(5)), Label(JStr(<<"release">>))>>)),
      PullRequest(JList(<<Label(JList(<<JStr(<<"x">>)>>)), Label(JStr(<<"release">>))>>)) }

EventFiles ==
    {[path |-> "unset", doc |-> NotJSON], [path |-> "missing", doc |-> NotJSON]}
    \cup {[path |-> "present", doc |-> d] : d \in EventDocs}

\* ------------------------------------------------------ how a step can end
\* fail(message): print the line and exit with status 1
DoFail(message) ==
    /\ stdout' = Append(stdout, <<"ERROR: ">> \o message)
    /\ status' = 1
    /\ pc' = "exited"
    /\ raised' = raised

\* an uncaught exception: traceback on stderr, exit status 1
DoRaise(exc) ==
    /\ raised' = exc
    /\ status' = 1
    /\ pc' = "exited"
    /\ stdout' = stdout

\* print(line) and return from main: exit status 0
DoReturn(line) ==
    /\ stdout' = Append(stdout, line)
    /\ status' = 0
    /\ pc' = "exited"
    /\ raised' = raised

Continue(next) ==
    /\ pc' = next
    /\ UNCHANGED <<stdout, status, raised>>

Outcome(r, next) ==
    CASE r.kind = "ok" -> Continue(next)
      [] r.kind = "fail" -> DoFail(r.message)
      [] r.kind = "raise" -> DoRaise(r.message[1])

\* ---------------------------------------------------------------- read_json
read_json(file, path) ==
    IF ~file.exists THEN Fail(<<"Missing ">> \o path)
    ELSE IF file.doc.t = "notjson" THEN Fail(<<"Invalid JSON in ">> \o path \o <<": ", "<exc>">>)
    ELSE Ok

\* ---------------------------------------------------- the rules of main()
\* mutants of the rules: each is the rule with one plausible slip
\* the `not` of line 118 dropped
release_without_bump_m(requested, file_has_changed) == requested /\ file_has_changed
\* `<` for `<=` on line 134
build_not_increased_m(cur, bas) ==
    IntValue(cur.v["build_number"]) < IntValue(bas.v["build_number"])
\* only the major component compared on line 143
version_decreased_m(current_version, base_version) == current_version[1] < base_version[1]
\* `<` for `<=` on line 149
release_not_bumped_m(requested, current_version, base_version) ==
    requested /\ TupleLess(current_version, base_version)

\* line 118: release_requested and not changed
release_without_bump(requested, file_has_changed) == requested /\ ~file_has_changed

\* line 134: current["build_number"] <= base["build_number"]
build_not_increased(cur, bas) ==
    IntValue(cur.v["build_number"]) <= IntValue(bas.v["build_number"])

\* line 143: current_version < base_version
version_decreased(current_version, base_version) == TupleLess(current_version, base_version)

\* line 149: release_requested and current_version <= base_version
release_not_bumped(requested, current_version, base_version) ==
    requested /\ TupleLessEq(current_version, base_version)

\* the source label of the record at the baseline
BaseSource == VERSION_PATH \o <<" at ">> \o base_ref

\* --------------------------------------------------------------------- main
\* the state of a run that starts with `file` as the working tree's version file
\* and `at_baseline` as what git gives for the file at the baseline
Start(file, at_baseline) ==
    /\ worktree_file = file
    /\ baseline_file = at_baseline
    /\ pc = "read_current"
    /\ current = Unset
    /\ base_ref = <<>>
    /\ changed = FALSE
    /\ labels = {}
    /\ release_requested = FALSE
    /\ base_contents = Unset
    /\ base = Unset
    /\ stdout = <<>>
    /\ status = -1
    /\ raised = ""

Init == \E file \in CurrentFiles, at_baseline \in GitShowResults : Start(file, at_baseline)

\* line 106: current = read_json(VERSION_PATH)
main_read_current ==
    /\ pc = "read_current"
    /\ current' = IF read_json(worktree_file, VERSION_PATH).kind = "ok"
                  THEN worktree_file.doc ELSE current
    /\ Outcome(read_json(worktree_file, VERSION_PATH), "validate_current")
    /\ UNCHANGED <<worktree_file, baseline_file, base_ref, changed, labels, release_requested, base_contents, base>>

\* mutant: line 107 left out
main_validate_current_m ==
    /\ pc = "validate_current"
    /\ Continue("resolve_base_ref")
    /\ UNCHANGED <<worktree_file, baseline_file, current, base_ref, changed, labels, release_requested, base_contents, base>>

\* line 107: validate_payload(current, VERSION_PATH)
main_validate_current ==
    /\ pc = "validate_current"
    /\ Outcome(validate_payload(current, VERSION_PATH), "resolve_base_ref")
    /\ UNCHANGED <<worktree_file, baseline_file, current, base_ref, changed, labels, release_requested, base_contents, base>>

\* lines 109-112
main_resolve_base_ref ==
    /\ pc = "resolve_base_ref"
    /\ \E env_base_ref \in BaseRefEnv, existing \in SUBSET {CANDIDATES[i] : i \in 1..Len(CANDIDATES)} :
          /\ base_ref' = resolve_base_ref(env_base_ref, existing)
          /\ IF base_ref' = <<>>
             THEN DoReturn(<<"No base ref detected; validated current version only.">>)
             ELSE Continue("file_changed")
    /\ UNCHANGED <<worktree_file, baseline_file, current, changed, labels, release_requested, base_contents, base>>

\* line 114: changed = file_changed(base_ref, VERSION_PATH)
main_file_changed ==
    /\ pc = "file_changed"
    /\ \E result \in GitDiffResults : changed' = file_changed(result)
    /\ Continue("parse_labels")
    /\ UNCHANGED <<worktree_file, baseline_file, current, base_ref, labels, release_requested, base_contents, base>>

\* lines 115-116
main_parse_labels ==
    /\ pc = "parse_labels"
    /\ \E event_file \in EventFiles :
          LET r == parse_labels_from_event(event_file) IN
          /\ labels' = r.labels
          /\ release_requested' = ReleaseRequested(r.labels)
          /\ Outcome(r, "release_without_bump")
    /\ UNCHANGED <<worktree_file, baseline_file, current, base_ref, changed, base_contents, base>>

\* lines 118-119
main_release_without_bump ==
    /\ pc = "release_without_bump"
    /\ IF release_without_bump(release_requested, changed)
       THEN DoFail(VERSION_PATH \o <<" must be updated when release label is applied">>)
       ELSE Continue("git_show")
    /\ UNCHANGED <<worktree_file, baseline_file, current, base_ref, changed, labels, release_requested, base_contents, base>>

\* mutant: a file that is absent at the baseline reported as an error
main_git_show_m ==
    /\ pc = "git_show"
    /\ base_contents' = git_show(baseline_file)
    /\ IF base_contents' = PyNone
       THEN DoFail(<<"Missing ">> \o BaseSource)
       ELSE Continue("json_loads")
    /\ UNCHANGED <<worktree_file, baseline_file, current, base_ref, changed, labels, release_requested, base>>

\* lines 121-124
main_git_show ==
    /\ pc = "git_show"
    /\ base_contents' = git_show(baseline_file)
    /\ IF base_contents' = PyNone
       THEN DoReturn(VERSION_PATH \o <<" not found on ">> \o base_ref
                     \o <<"; treating as initial version.">>)
       ELSE Continue("json_loads")
    /\ UNCHANGED <<worktree_file, baseline_file, current, base_ref, changed, labels, release_requested, base>>

\* lines 126-129
main_json_loads ==
    /\ pc = "json_loads"
    /\ IF base_contents.t = "notjson"
       THEN /\ DoFail(<<"Invalid JSON in ">> \o BaseSource \o <<": ", "<exc>">>)
            /\ base' = base
       ELSE /\ base' = base_contents
            /\ Continue("validate_base")
    /\ UNCHANGED <<worktree_file, baseline_file, current, base_ref, changed, labels, release_requested, base_contents>>

\* line 131
main_validate_base ==
    /\ pc = "validate_base"
    /\ Outcome(validate_payload(base, BaseSource), "build_rule")
    /\ UNCHANGED <<worktree_file, baseline_file, current, base_ref, changed, labels, release_requested, base_contents, base>>

\* lines 133-138
main_build_rule ==
    /\ pc = "build_rule"
    /\ IF ~changed THEN Continue("passed")
       ELSE IF build_not_increased(current, base)
            THEN DoFail(<<"build_number must increase (current ">>
                        \o Format(current.v["build_number"]) \o <<", base ">>
                        \o Format(base.v["build_number"]) \o <<")">>)
            ELSE Continue("regression_rule")
    /\ UNCHANGED <<worktree_file, baseline_file, current, base_ref, changed, labels, release_requested, base_contents, base>>

CurrentVersion == current.v["marketing_version"].v
BaseVersion == base.v["marketing_version"].v

\* lines 140-147
main_regression_rule ==
    /\ pc = "regression_rule"
    /\ IF ~(semver_tuple_ok(CurrentVersion) /\ semver_tuple_ok(BaseVersion))
       THEN DoRaise("ValueError")
       ELSE IF version_decreased(semver_tuple(CurrentVersion), semver_tuple(BaseVersion))
            THEN DoFail(<<"marketing_version must not decrease (current ">> \o CurrentVersion
                        \o <<", base ">> \o BaseVersion \o <<")">>)
            ELSE Continue("release_rule")
    /\ UNCHANGED <<worktree_file, baseline_file, current, base_ref, changed, labels, release_requested, base_contents, base>>

\* lines 149-153
main_release_rule ==
    /\ pc = "release_rule"
    /\ IF release_not_bumped(release_requested, semver_tuple(CurrentVersion), semver_tuple(BaseVersion))
       THEN DoFail(<<"marketing_version must increase for release label (current ">>
                   \o CurrentVersion \o <<", base ">> \o BaseVersion \o <<")">>)
       ELSE Continue("passed")
    /\ UNCHANGED <<worktree_file, baseline_file, current, base_ref, changed, labels, release_requested, base_contents, base>>

\* line 155
main_passed ==
    /\ pc = "passed"
    /\ DoReturn(<<"Versioning validation passed.">>)
    /\ UNCHANGED <<worktree_file, baseline_file, current, base_ref, changed, labels, release_requested, base_contents, base>>

Next ==
    \/ main_read_current
    \/ main_validate_current
    \/ main_resolve_base_ref
    \/ main_file_changed
    \/ main_parse_labels
    \/ main_release_without_bump
    \/ main_git_show
    \/ main_json_loads
    \/ main_validate_base
    \/ main_build_rule
    \/ main_regression_rule
    \/ main_release_rule
    \/ main_passed

Spec == Init /\ [][Next]_vars

\* ------------------------------------------- validate_payload on its own
Alphabet == {"0", "1", ".", "\n", " ", "a"}
Strings(n) == UNION {[1..k -> Alphabet] : k \in 0..n}

\* values a build_number field can hold
BuildValues ==
    {JInt(i) : i \in (-2)..MaxBuild}
    \cup {JBool(TRUE), JBool(FALSE), JFloat(10), JFloat(15), JStr(<<"1">>), JNull,
          JList(<<>>), EmptyDict}

ValidatorInputs ==
    {Record(JStr(ver), JInt(0)) : ver \in Strings(MaxLen)}
    \cup {Record(JStr(V120), b) : b \in BuildValues}

InitValidate ==
    \E d \in ValidatorInputs : Start([exists |-> TRUE, doc |-> d], [rc |-> 128, out |-> NotJSON])

NextValidate ==
    \/ main_read_current
    \/ main_validate_current

\* main() up to the return of validate_payload(current, VERSION_PATH)
SpecValidate == InitValidate /\ [][NextValidate]_vars

\* ------------------------------------------------------ vocabulary of claims
Exited == pc = "exited"
ErrorLines == {i \in 1..Len(stdout) : stdout[i][1] = "ERROR: "}

\* the working tree's version file exists, is JSON and validate_payload accepts it
FileValid ==
    /\ worktree_file.exists
    /\ worktree_file.doc.t # "notjson"
    /\ validate_payload(worktree_file.doc, VERSION_PATH).kind = "ok"

\* the record at the baseline was retrieved, is JSON and validate_payload accepts it
BaseValid ==
    /\ base # Unset
    /\ validate_payload(base, BaseSource).kind = "ok"

\* the (major, minor, patch) a version string denotes: the triple of numbers whose
\* decimal rendering it is
Numeric(ver) ==
    CHOOSE t \in (0..MaxMajor) \X MinorValues \X (0..MaxPatch) :
        VersionString(t[1], t[2], t[3]) = Strip(ver)
CurrentTuple == Numeric(current.v["marketing_version"].v)
BaseTuple == Numeric(base.v["marketing_version"].v)
CurrentBuild == IntValue(current.v["build_number"])
BaseBuild == IntValue(base.v["build_number"])

ReleaseWithoutBumpLine ==
    <<"ERROR: ">> \o VERSION_PATH \o <<" must be updated when release label is applied">>
InitialVersionLine ==
    VERSION_PATH \o <<" not found on ">> \o base_ref \o <<"; treating as initial version.">>
CurrentOnlyLine == <<"No base ref detected; validated current version only.">>
PassedLine == <<"Versioning validation passed.">>
BuildLineHead == "build_number must increase (current "
RegressionLineHead == "marketing_version must not decrease (current "
ReleaseBumpLineHead == "marketing_version must increase for release label (current "

\* the run failed through fail() with the diagnostic that starts with `head`
FailedWith(head) ==
    /\ status = 1
    /\ raised = ""
    /\ Len(stdout) = 1
    /\ stdout[1][1] = "ERROR: "
    /\ stdout[1][2] = head

\* ------------------------------------------------------------------ claims

\* what git gives at the baseline is a record validate_payload accepts
BaselineFileValid ==
    /\ baseline_file.rc = 0
    /\ baseline_file.out.t # "notjson"
    /\ validate_payload(baseline_file.out, VERSION_PATH).kind = "ok"

\* C1: when the current record is valid, a baseline ref resolves, release is
\* requested and the change detector reports no change, the run fails with the
\* "must be updated when release label is applied" diagnostic and nothing else,
\* whatever git would give for the file at the baseline, and that file has not
\* been read: no state in which it has been read has release requested without
\* a change.
C1_ReleaseWithoutBumpFirst ==
    /\ (Exited /\ FileValid /\ base_ref # <<>> /\ release_requested /\ ~changed) =>
          /\ status = 1
          /\ raised = ""
          /\ stdout = <<ReleaseWithoutBumpLine>>
          /\ base_contents = Unset
          /\ base = Unset
    /\ (base_contents # Unset) => ~(release_requested /\ ~changed)
\* release without a change, while the record at the baseline is valid and has
\* the greater build number and the greater version
C1_Witness ==
    /\ Exited /\ FileValid /\ base_ref # <<>> /\ release_requested /\ ~changed
    /\ BaselineFileValid
    /\ IntValue(worktree_file.doc.v["build_number"]) < IntValue(baseline_file.out.v["build_number"])
    /\ TupleLess(Numeric(worktree_file.doc.v["marketing_version"].v),
                 Numeric(baseline_file.out.v["marketing_version"].v))
    /\ stdout = <<ReleaseWithoutBumpLine>>

\* C2: with both records valid and the file changed, a current build number not
\* greater than the baseline's fails the run with the build diagnostic; a
\* strictly greater one never gives the build diagnostic, the run can then fail
\* only by the two version rules, and with equal versions and no release label
\* it passes.
C2_BuildMonotonic ==
    (Exited /\ FileValid /\ BaseValid /\ changed) =>
        /\ (CurrentBuild <= BaseBuild) => FailedWith(BuildLineHead)
        /\ (CurrentBuild > BaseBuild) =>
              /\ ~FailedWith(BuildLineHead)
              /\ status = 1 => (FailedWith(RegressionLineHead) \/ FailedWith(ReleaseBumpLineHead))
              /\ (CurrentTuple = BaseTuple /\ ~release_requested) =>
                    (status = 0 /\ stdout = <<PassedLine>>)
C2_Witness ==
    /\ Exited /\ FileValid /\ BaseValid /\ changed
    /\ CurrentBuild > BaseBuild /\ CurrentTuple = BaseTuple /\ ~release_requested
    /\ status = 0

\* C3 as stated: with both records valid, a current version tuple numerically
\* less than the baseline's fails the run, whatever the change detector answers.
C3_Original ==
    (Exited /\ FileValid /\ BaseValid /\ TupleLess(CurrentTuple, BaseTuple)) => status = 1

\* C3 as amended: with both records valid and the file changed, a current version
\* tuple numerically less than the baseline's fails the run, with or without
\* release intent; when the build number increased the diagnostic is the
\* "must not decrease" one.
C3_RegressionWhenChanged ==
    (Exited /\ FileValid /\ BaseValid /\ changed /\ TupleLess(CurrentTuple, BaseTuple)) =>
        /\ status = 1
        /\ (CurrentBuild > BaseBuild) => FailedWith(RegressionLineHead)
C3_Witness ==
    /\ Exited /\ FileValid /\ BaseValid /\ changed /\ ~release_requested
    /\ CurrentTuple[1] = BaseTuple[1] /\ CurrentTuple[2] < BaseTuple[2]
    /\ CurrentBuild > BaseBuild
    /\ FailedWith(RegressionLineHead)

\* C4: in a run that has read a valid current record and a valid baseline
\* record with release requested: file changed and equal versions fail the run,
\* with the release diagnostic when the build number increased; a strictly
\* greater version with a strictly greater build number passes.
C4_ReleaseBump ==
    (Exited /\ FileValid /\ BaseValid /\ release_requested) =>
        /\ (changed /\ CurrentTuple = BaseTuple) =>
              /\ status = 1
              /\ (CurrentBuild > BaseBuild) => FailedWith(ReleaseBumpLineHead)
        /\ (TupleLess(BaseTuple, CurrentTuple) /\ CurrentBuild > BaseBuild) =>
              (status = 0 /\ stdout = <<PassedLine>>)
C4_Witness ==
    /\ Exited /\ FileValid /\ BaseValid /\ release_requested /\ changed
    /\ CurrentTuple = BaseTuple /\ CurrentBuild > BaseBuild
    /\ FailedWith(ReleaseBumpLineHead)

\* C5: a version file that is missing, is not JSON or that validate_payload does
\* not accept fails the run before anything else is consulted (no baseline ref,
\* change answer, label or baseline record is ever obtained); and a run in which
\* no baseline ref resolved passes if and only if the file exists and is valid,
\* with the current-only message.
C5_CurrentFirst ==
    /\ ~FileValid =>
          /\ base_ref = <<>> /\ ~changed /\ labels = {} /\ base_contents = Unset /\ base = Unset
          /\ pc \in {"read_current", "validate_current", "exited"}
          /\ Exited => status = 1
    /\ (Exited /\ base_ref = <<>>) =>
          /\ status = 0 <=> FileValid
          /\ status = 0 => stdout = <<CurrentOnlyLine>>
C5_Witness == Exited /\ base_ref = <<>> /\ FileValid /\ status = 0

\* C6: once git_show has returned None the run has passed with the "treating as
\* initial version" line and nothing else, the baseline record was never parsed
\* and no position of the three comparison rules is ever reached; a run with a
\* valid current record and a baseline ref that ends through fail() before
\* git_show does so by the release-without-bump rule; and retrieved content
\* that is not JSON or that validate_payload does not accept ends the run with
\* status 1.
C6_AbsentBaseline ==
    /\ (base_contents = PyNone) =>
          /\ Exited /\ status = 0 /\ raised = ""
          /\ stdout = <<InitialVersionLine>>
          /\ base = Unset
          /\ FileValid /\ base_ref # <<>>
    /\ (Exited /\ FileValid /\ base_ref # <<>> /\ base_contents = Unset
          /\ status = 1 /\ raised = "") => stdout = <<ReleaseWithoutBumpLine>>
    /\ (Exited /\ base_contents \notin {Unset, PyNone}
          /\ (base_contents.t = "notjson"
                 \/ validate_payload(base_contents, BaseSource).kind # "ok")) => status = 1
C6_Witness ==
    Exited /\ base_contents = PyNone /\ release_requested /\ changed /\ status = 0

\* the strings the specification calls semantic versions: three components
\* separated by dots, each a run of decimal digits without a leading zero
\* unless it is the single digit 0
StrictSemVer(s) ==
    /\ Len(Split(s)) = 3
    /\ \A i \in 1..3 :
          LET part == Split(s)[i] IN
          /\ part # <<>>
          /\ \A k \in 1..Len(part) : part[k] \in AsciiDigit
          /\ Len(part) > 1 => part[1] # "0"

ValidatorReturned == pc \notin {"read_current", "validate_current"}
ValidatorAccepted == pc = "resolve_base_ref"

\* C7: validate_payload accepts a marketing_version string if and only if it is,
\* in full, MAJOR.MINOR.PATCH with each component a decimal integer without a
\* leading zero.
C7_SemVerExactly ==
    (ValidatorReturned /\ worktree_file.doc.v["build_number"].t = "int"
        /\ worktree_file.doc.v["build_number"].v = 0) =>
        (ValidatorAccepted <=> StrictSemVer(worktree_file.doc.v["marketing_version"].v))

\* C8: validate_payload accepts a build_number if and only if it is an integer
\* that is >= 0; booleans and every other JSON value are rejected.
C8_BuildNumberInteger ==
    (ValidatorReturned /\ worktree_file.doc.v["marketing_version"].v = V120) =>
        (ValidatorAccepted <=>
            (worktree_file.doc.v["build_number"].t = "int"
                /\ worktree_file.doc.v["build_number"].v >= 0))

\* C9: a run ends either with status 0, a success line last and no ERROR line,
\* or with status 1 and exactly one ERROR line.
C9_ExitContract ==
    Exited =>
        \/ /\ status = 0
           /\ ErrorLines = {}
           /\ Len(stdout) >= 1
           /\ stdout[Len(stdout)] \in {PassedLine, CurrentOnlyLine, InitialVersionLine}
        \/ /\ status = 1
           /\ Cardinality(ErrorLines) = 1

\* C10: reading the labels never ends the run: the step after file_changed
\* always hands over to the release-without-bump rule.
C10_LabelsNeverFail == [][pc = "parse_labels" => pc' = "release_without_bump"]_vars

====
